---- MODULE Spec2Model ----
(***************************************************************************)
(* A model of main() in                                                    *)
(*   src/A_Structured_Self-attentive_Sentence_Embedding_cls/train.py       *)
(* the training run of the structured self-attentive sentence classifier:  *)
(* the epoch loop, the per-batch training step, the periodic and the       *)
(* end-of-epoch evaluation, the plateau scheduler and the best-checkpoint  *)
(* decision.  main() is one sequential program; pc is its position and     *)
(* every action is one statement (or a run of statements) of it.           *)
(*                                                                         *)
(* Numbers.  Training losses and accuracies are floats that are summed and *)
(* divided; they are kept as exact fractions [num, den], and den = 0 is a  *)
(* non-finite value (NaN), which every sum and quotient propagates.        *)
(* Validation losses are finite and counted in whole units of 10.0, so     *)
(* that the initial tracker value 1e+10 of line 73 fits a 32-bit integer.  *)
(* Learning rates are counted in units of 1e-9.                            *)
(***************************************************************************)
EXTENDS Integers, Sequences, FiniteSets

VARIABLES
    epochs,         \* args.epochs
    n_batches,      \* len(tr_dl)
    summary_step,   \* args.summary_step
    pc,             \* position in main()
    exc,            \* the exception that ended the run, "" when none
    epoch_it,       \* next value of range(args.epochs)
    epoch,          \* loop variable of line 75
    step_it,        \* next index of enumerate(tr_dl)
    step,           \* loop variable of line 81
    training,       \* model.training
    params,         \* version of the model parameters: optimizer updates applied
    mb_loss,        \* line 87-88
    mb_acc,         \* line 93
    tr_loss,        \* line 77, 95, 104
    tr_acc,         \* line 78, 96, 105
    tr_summary,     \* line 107
    val_summary,    \* line 108
    val_loss,       \* line 99, 114
    is_best,        \* line 115
    best_val_loss,  \* line 73, 127
    lr,             \* learning rate of opt's parameter group
    sched_best,     \* scheduler.best
    num_bad_epochs, \* scheduler.num_bad_epochs
    summary_json,   \* the file summary.json: <<>> when absent, else <<content>>
    best_tar,       \* the file best.tar: <<>> when absent, else <<content>>
    val_hist,       \* the validation loss of every end-of-epoch evaluation so far
    sched_log,      \* every scheduler.step so far: the metric fed and the lr after it
    writer,         \* the global steps logged by writer.add_scalars
    decisions,      \* every checkpoint decision so far: line 114-115
    attn_mat,       \* line 85
    reg,            \* line 86
    batch_log,      \* the batches of this epoch so far: cross-entropy, penalty, accuracy
    n_zero_grad,    \* how many times opt.zero_grad() has run
    n_backward,     \* how many times mb_loss.backward() has run
    eval_params     \* the parameter version the last end-of-epoch evaluation ran on

vars == <<epochs, n_batches, summary_step, pc, exc, epoch_it, epoch, step_it, step,
          training, params, mb_loss, mb_acc, tr_loss, tr_acc, tr_summary,
          val_summary, val_loss, is_best, best_val_loss, lr, sched_best,
          num_bad_epochs, summary_json, best_tar, val_hist, sched_log, writer,
          decisions, attn_mat, reg, batch_log, n_zero_grad, n_backward,
          eval_params>>

-----------------------------------------------------------------------------
(* Bounds of the model *)

MaxEpochs == 3

MaxSteps == 2

MaxSummaryStep == 2

-----------------------------------------------------------------------------
(* Values *)

\* A local variable that no statement has assigned yet.
Unbound == -1

\* A float as an exact fraction; den = 0 is a non-finite value.
F(n) == [num |-> n, den |-> 1]

NaN == [num |-> 0, den |-> 0]

IsFinite(x) == x.den # 0

\* x + y of floats (tr_loss += mb_loss.item()).
AddF(x, y) ==
    IF x.den = 0 \/ y.den = 0
    THEN NaN
    ELSE [num |-> x.num * y.den + y.num * x.den, den |-> x.den * y.den]

\* x / k of a float by a positive integer (tr_loss /= (step + 1)).
DivF(x, k) == IF x.den = 0 THEN NaN ELSE [num |-> x.num, den |-> x.den * k]

\* best_val_loss = 1e+10, in units of 10.0.
BestInit == 1000000000

\* An attention batch of one item whose two rows are orthogonal unit rows,
\* and one whose two rows are the same row.
DiverseAttn == << << <<1, 0>>, <<0, 1>> >> >>

RedundantAttn == << << <<1, 0>>, <<1, 0>> >> >>

\* What one training batch can give: its cross-entropy (line 87), its
\* attention matrix (line 85) and its accuracy (line 93).
BatchOutcomes ==
    { [ce |-> F(1), attn |-> DiverseAttn,   acc |-> F(1)],
      [ce |-> F(1), attn |-> RedundantAttn, acc |-> F(0)],
      [ce |-> NaN,  attn |-> DiverseAttn,   acc |-> F(0)] }

\* What one evaluation of the validation set can give: a finite loss (in units
\* of 10.0) and an accuracy in percent.  19999 is below 20000 by less than
\* the scheduler's relative threshold, 10000 is below both by far more;
\* 2 * BestInit is a finite loss above the tracker's initial value.
ValOutcomes ==
    { [loss |-> 20000,    acc |-> 50],
      [loss |-> 19999,    acc |-> 60],
      [loss |-> 10000,    acc |-> 90],
      [loss |-> 2 * BestInit, acc |-> 10] }

\* What a periodic, loss-only evaluation can give: a loss that no
\* end-of-epoch evaluation gives.
PeriodicLosses == { 15000 }

\* args.learning_rate, in units of 1e-9: the default 1e-3.
DefaultRate == 1000000

\* The default learning rate, and 1e-8.
LearningRates == { DefaultRate, 10 }

-----------------------------------------------------------------------------
(* regularize(attn_mat, r, device), line 35-39.  An attention batch is a   *)
(* sequence (batch) of sequences (rows) of sequences (timesteps) of whole  *)
(* numbers.  The 2-norm of an item is a square root; it is rounded down to *)
(* a whole number, which leaves a norm zero exactly when it is zero.       *)

RECURSIVE SumTo(_, _)
\* f[1] + ... + f[n]
SumTo(f, n) == IF n = 0 THEN 0 ELSE f[n] + SumTo(f, n - 1)

\* The largest k with k * k <= n.
Isqrt(n) == CHOOSE k \in 0..n : k * k <= n /\ n < (k + 1) * (k + 1)

\* One entry of torch.bmm(attn_mat, attn_mat.permute(0, 2, 1)): line 36.
sim_entry(item, i, j) ==
    SumTo([k \in 1..Len(item[i]) |-> item[i][k] * item[j][k]], Len(item[i]))

\* torch.eye(r): line 37.
identity(r) == [i \in 1..r |-> [j \in 1..r |-> IF i = j THEN 1 ELSE 0]]

\* One entry of sim_mat - identity for one item of the batch: line 38.
diff_entry(item, r, i, j) == sim_entry(item, i, j) - identity(r)[i][j]

\* The sum of the squares of the entries of an r x r matrix d.
SumSquares(d, r) ==
    SumTo([i \in 1..r |-> SumTo([j \in 1..r |-> d[i][j] * d[i][j]], r)], r)

\* The penalty with the batch mean taken before the norm: the norm of the
\* sum of the items' matrices, over the batch size.
regularize_mean_first(mat, r) ==
    LET B == Len(mat)
        d == [i \in 1..r |-> [j \in 1..r |->
                SumTo([b \in 1..B |-> diff_entry(mat[b], r, i, j)], B)]]
    IN  [num |-> Isqrt(SumSquares(d, r)), den |-> B]

\* line 36-39: the norm of sim_mat - identity over dimensions 1 and 2 of
\* each item, then the mean over the batch.
regularize(mat, r) ==
    LET B == Len(mat)
        norm(b) ==
            Isqrt(SumSquares([i \in 1..r |-> [j \in 1..r |->
                                 diff_entry(mat[b], r, i, j)]], r))
    IN  [num |-> SumTo([b \in 1..B |-> norm(b)], B), den |-> B]

-----------------------------------------------------------------------------
(* ReduceLROnPlateau(opt, patience=5): mode "min", factor 0.1, threshold  *)
(* 1e-4 relative, cooldown 0, min_lr 0, eps 1e-8.                          *)

patience == 5

\* factor = 0.1 = 1 / factor_den
factor_den == 10

\* threshold = 1e-4 = 1 / threshold_den
threshold_den == 10000

\* eps = 1e-8, in units of 1e-9
eps == 10

min_lr == 0

\* scheduler.best before the first step.
Inf == 2147483647

\* is_better(a, best), mode "min", threshold_mode "rel":
\*   a < best * (1 - threshold).
\* For integers a, best >= 0 this is a < best - (best \div threshold_den).
is_better(a, best) ==
    IF best = Inf THEN TRUE ELSE a < best - (best \div threshold_den)

Max(a, b) == IF a >= b THEN a ELSE b

\* _reduce_lr: new_lr = max(old_lr * factor, min_lr), taken when
\* old_lr - new_lr > eps.
reduce_lr(old_lr) ==
    LET new_lr == Max(old_lr \div factor_den, min_lr)
    IN  IF old_lr - new_lr > eps THEN new_lr ELSE old_lr

\* scheduler.step(metric): the scheduler's state and the learning rate after.
scheduler_step(metric, best, bad, rate) ==
    LET better == is_better(metric, best)
        best1  == IF better THEN metric ELSE best
        bad1   == IF better THEN 0 ELSE bad + 1
    IN  IF bad1 > patience
        THEN [best |-> best1, bad |-> 0, lr |-> reduce_lr(rate)]
        ELSE [best |-> best1, bad |-> bad1, lr |-> rate]

-----------------------------------------------------------------------------
(* Collaborators of main() that live outside train.py *)

\* model.training after evaluate(model, ...) returns: evaluate puts the model
\* in inference mode and does not put it back.
evaluate_mode == FALSE

\* The model parameters after evaluate(model, ...) on parameters p: evaluate
\* must not mutate any model state.
evaluate_params(p) == p

\* summary_manager.update(summary); summary_manager.save("summary.json"):
\* the file holds the new summary alone.
summary_save(file, summary) == <<summary>>

\* checkpoint_manager.save_checkpoint(state, "best.tar"): the file holds the
\* new state alone.
save_checkpoint(file, state) == <<state>>

-----------------------------------------------------------------------------
(* The program *)

\* The step within the epoch taken for the global step.
step_in_epoch == step

\* epoch * len(tr_dl) + step
global_step == epoch * n_batches + step

\* A tie with the tracker taken for an improvement.
IsBestOrTie(loss, best) == loss <= best

\* line 115
IsBest(loss, best) == loss < best

\* The state before the epoch loop, but for the position and attn_mat.
RunState(E, N, S, R) ==
    /\ epochs \in E
    /\ n_batches \in N
    /\ summary_step \in S
    /\ lr \in R
    /\ exc = ""
    /\ epoch_it = 0
    /\ epoch = Unbound
    /\ step_it = 0
    /\ step = Unbound
    /\ training = TRUE
    /\ params = 0
    /\ mb_loss = F(0)
    /\ mb_acc = F(0)
    /\ tr_loss = F(0)
    /\ tr_acc = F(0)
    /\ tr_summary = [loss |-> F(0), acc |-> F(0)]
    /\ val_summary = [loss |-> 0, acc |-> 0]
    /\ val_loss = 0
    /\ is_best = FALSE
    /\ best_val_loss = BestInit
    /\ sched_best = Inf
    /\ num_bad_epochs = 0
    /\ summary_json = << >>
    /\ best_tar = << >>
    /\ val_hist = << >>
    /\ sched_log = << >>
    /\ writer = << >>
    /\ decisions = << >>
    /\ reg = F(0)
    /\ batch_log = << >>
    /\ n_zero_grad = 0
    /\ n_backward = 0
    /\ eval_params = 0

InitWith(E, N, S, R) ==
    /\ RunState(E, N, S, R)
    /\ pc = "for_epoch"
    /\ attn_mat = << >>

Init == InitWith(0..MaxEpochs, 0..MaxSteps, 1..MaxSummaryStep, {DefaultRate})

\* The running loss of the epoch before, taken for the start of this one.
CarriedLoss == tr_loss

\* line 77: tr_loss = 0.
EpochStartLoss == F(0)

\* The loop taking one epoch more than range(epochs) gives.
OneEpochMore == epoch_it <= epochs

\* line 75: for epoch in range(epochs), whether an epoch is left.
MoreEpochs == epoch_it < epochs

\* line 75-80: the next epoch begins, or the loop is over.
ForEpoch ==
    /\ pc = "for_epoch"
    /\ IF MoreEpochs
       THEN /\ epoch' = epoch_it
            /\ epoch_it' = epoch_it + 1
            /\ tr_loss' = EpochStartLoss
            /\ tr_acc' = F(0)
            /\ training' = TRUE
            /\ step_it' = 0
            /\ batch_log' = << >>
            /\ pc' = "for_step"
       ELSE /\ pc' = "done"
            /\ UNCHANGED <<epoch, epoch_it, tr_loss, tr_acc, training, step_it,
                           batch_log>>
    /\ UNCHANGED <<epochs, n_batches, summary_step, exc, step, params, mb_loss,
                   mb_acc, tr_summary, val_summary, val_loss, is_best,
                   best_val_loss, lr, sched_best, num_bad_epochs, summary_json,
                   best_tar, val_hist, sched_log, writer, decisions>>
    /\ UNCHANGED <<attn_mat, reg, n_zero_grad, n_backward, eval_params>>

\* line 81-82: the next batch is taken, or the loader is exhausted and the
\* else branch of the for loop is entered.
ForStep ==
    /\ pc = "for_step"
    /\ IF step_it < n_batches
       THEN /\ step' = step_it
            /\ step_it' = step_it + 1
            /\ pc' = "zero_grad"
       ELSE /\ pc' = "average"
            /\ UNCHANGED <<step, step_it>>
    /\ UNCHANGED <<epochs, n_batches, summary_step, exc, epoch_it, epoch,
                   training, params, mb_loss, mb_acc, tr_loss, tr_acc,
                   tr_summary, val_summary, val_loss, is_best, best_val_loss, lr,
                   sched_best, num_bad_epochs, summary_json, best_tar, val_hist,
                   sched_log, writer, decisions>>
    /\ UNCHANGED <<attn_mat, reg, batch_log, n_zero_grad, n_backward, eval_params>>

\* line 84: opt.zero_grad().
ZeroGrad ==
    /\ pc = "zero_grad"
    /\ n_zero_grad' = n_zero_grad + 1
    /\ pc' = "forward"
    /\ UNCHANGED <<epochs, n_batches, summary_step, exc, epoch_it, epoch,
                   step_it, step, training, params, mb_loss, mb_acc, tr_loss,
                   tr_acc, tr_summary, val_summary, val_loss, is_best,
                   best_val_loss, lr, sched_best, num_bad_epochs, summary_json,
                   best_tar, val_hist, sched_log, writer, decisions, attn_mat,
                   reg, batch_log, n_backward, eval_params>>

\* The cross-entropy alone taken for the loss of the batch.
CrossEntropyAlone(ce, penalty) == ce

\* line 87-88: mb_loss = loss_fn(score, y_mb); mb_loss.add_(reg).
TotalLoss(ce, penalty) == AddF(ce, penalty)

\* line 85-88 and 93: the forward pass, the penalty, the total loss of the
\* batch and its accuracy.
Forward(batches) ==
    /\ pc = "forward"
    /\ \E b \in batches :
         /\ attn_mat' = b.attn
         /\ reg' = regularize(b.attn, Len(b.attn[1]))
         /\ mb_loss' = TotalLoss(b.ce, reg')
         /\ mb_acc' = b.acc
         /\ batch_log' = Append(batch_log,
                                 [ce |-> b.ce, reg |-> reg', acc |-> b.acc])
    /\ pc' = "backward"
    /\ UNCHANGED <<epochs, n_batches, summary_step, exc, epoch_it, epoch,
                   step_it, step, training, params, tr_loss, tr_acc,
                   tr_summary, val_summary, val_loss, is_best, best_val_loss, lr,
                   sched_best, num_bad_epochs, summary_json, best_tar, val_hist,
                   sched_log, writer, decisions>>
    /\ UNCHANGED <<n_zero_grad, n_backward, eval_params>>

\* line 89: mb_loss.backward().
Backward ==
    /\ pc = "backward"
    /\ n_backward' = n_backward + 1
    /\ pc' = "opt_step"
    /\ UNCHANGED <<epochs, n_batches, summary_step, exc, epoch_it, epoch,
                   step_it, step, training, params, mb_loss, mb_acc, tr_loss,
                   tr_acc, tr_summary, val_summary, val_loss, is_best,
                   best_val_loss, lr, sched_best, num_bad_epochs, summary_json,
                   best_tar, val_hist, sched_log, writer, decisions, attn_mat,
                   reg, batch_log, n_zero_grad, eval_params>>

\* line 90: opt.step().
OptStep ==
    /\ pc = "opt_step"
    /\ params' = params + 1
    /\ pc' = "accumulate"
    /\ UNCHANGED <<epochs, n_batches, summary_step, exc, epoch_it, epoch,
                   step_it, step, training, mb_loss, mb_acc, tr_loss, tr_acc,
                   tr_summary, val_summary, val_loss, is_best, best_val_loss, lr,
                   sched_best, num_bad_epochs, summary_json, best_tar, val_hist,
                   sched_log, writer, decisions>>
    /\ UNCHANGED <<attn_mat, reg, batch_log, n_zero_grad, n_backward, eval_params>>

\* line 95-96
Accumulate ==
    /\ pc = "accumulate"
    /\ tr_loss' = AddF(tr_loss, mb_loss)
    /\ tr_acc' = AddF(tr_acc, mb_acc)
    /\ pc' = "summary"
    /\ UNCHANGED <<epochs, n_batches, summary_step, exc, epoch_it, epoch,
                   step_it, step, training, params, mb_loss, mb_acc,
                   tr_summary, val_summary, val_loss, is_best, best_val_loss, lr,
                   sched_best, num_bad_epochs, summary_json, best_tar, val_hist,
                   sched_log, writer, decisions>>
    /\ UNCHANGED <<attn_mat, reg, batch_log, n_zero_grad, n_backward, eval_params>>

\* The mode evaluate left, line 102 missing.
ModeLeftByEvaluate == evaluate_mode

\* model.training after the periodic evaluation: line 99, then line 102.
ModeAfterPeriodicEval == TRUE

\* line 98-102: every summary_step global steps, a loss-only evaluation.
PeriodicEval(losses) ==
    /\ pc = "summary"
    /\ IF global_step % summary_step = 0
       THEN /\ \E l \in losses : val_loss' = l
            /\ writer' = Append(writer, global_step)
            /\ training' = ModeAfterPeriodicEval
            /\ params' = evaluate_params(params)
       ELSE UNCHANGED <<val_loss, writer, training, params>>
    /\ pc' = "for_step"
    /\ UNCHANGED <<epochs, n_batches, summary_step, exc, epoch_it, epoch,
                   step_it, step, mb_loss, mb_acc, tr_loss, tr_acc,
                   tr_summary, val_summary, is_best, best_val_loss, lr,
                   sched_best, num_bad_epochs, summary_json, best_tar, val_hist,
                   sched_log, decisions>>
    /\ UNCHANGED <<attn_mat, reg, batch_log, n_zero_grad, n_backward, eval_params>>

\* line 104-107: the epoch's averages.
Average ==
    /\ pc = "average"
    /\ step # Unbound
    /\ tr_loss' = DivF(tr_loss, step + 1)
    /\ tr_acc' = DivF(tr_acc, step + 1)
    /\ tr_summary' = [loss |-> tr_loss', acc |-> tr_acc']
    /\ pc' = "evaluate"
    /\ UNCHANGED <<epochs, n_batches, summary_step, exc, epoch_it, epoch,
                   step_it, step, training, params, mb_loss, mb_acc,
                   val_summary, val_loss, is_best, best_val_loss, lr,
                   sched_best, num_bad_epochs, summary_json, best_tar, val_hist,
                   sched_log, writer, decisions>>
    /\ UNCHANGED <<attn_mat, reg, batch_log, n_zero_grad, n_backward, eval_params>>

\* line 104 when the loader gave no batch in the first epoch: step was never
\* assigned and reading it raises UnboundLocalError.
AverageUnbound ==
    /\ pc = "average"
    /\ step = Unbound
    /\ pc' = "raised"
    /\ exc' = "UnboundLocalError"
    /\ UNCHANGED <<epochs, n_batches, summary_step, epoch_it, epoch, step_it,
                   step, training, params, mb_loss, mb_acc, tr_loss, tr_acc,
                   tr_summary, val_summary, val_loss, is_best, best_val_loss, lr,
                   sched_best, num_bad_epochs, summary_json, best_tar, val_hist,
                   sched_log, writer, decisions>>
    /\ UNCHANGED <<attn_mat, reg, batch_log, n_zero_grad, n_backward, eval_params>>

\* line 108: the end-of-epoch evaluation, loss and accuracy.
EpochEval(outcomes) ==
    /\ pc = "evaluate"
    /\ \E v \in outcomes :
         /\ val_summary' = v
         /\ val_hist' = Append(val_hist, v.loss)
    /\ eval_params' = params
    /\ training' = evaluate_mode
    /\ params' = evaluate_params(params)
    /\ pc' = "schedule"
    /\ UNCHANGED <<epochs, n_batches, summary_step, exc, epoch_it, epoch,
                   step_it, step, mb_loss, mb_acc, tr_loss, tr_acc,
                   tr_summary, val_loss, is_best, best_val_loss, lr,
                   sched_best, num_bad_epochs, summary_json, best_tar,
                   sched_log, writer, decisions>>
    /\ UNCHANGED <<attn_mat, reg, batch_log, n_zero_grad, n_backward>>

\* The validation accuracy taken for the scheduler's metric.
ValidationAccuracy == val_summary.acc

\* The metric fed to the scheduler: line 109.
SchedulerMetric == val_summary.loss

\* line 109-112: scheduler.step(val_summary['loss']), then the epoch report.
SchedulerStep ==
    /\ pc = "schedule"
    /\ LET s == scheduler_step(SchedulerMetric, sched_best, num_bad_epochs, lr)
       IN  /\ sched_best' = s.best
           /\ num_bad_epochs' = s.bad
           /\ lr' = s.lr
           /\ sched_log' = Append(sched_log,
                                  [metric |-> SchedulerMetric, lr |-> s.lr])
    /\ pc' = "decide"
    /\ UNCHANGED <<epochs, n_batches, summary_step, exc, epoch_it, epoch,
                   step_it, step, training, params, mb_loss, mb_acc, tr_loss,
                   tr_acc, tr_summary, val_summary, val_loss, is_best,
                   best_val_loss, summary_json, best_tar, val_hist, writer,
                   decisions>>
    /\ UNCHANGED <<attn_mat, reg, batch_log, n_zero_grad, n_backward, eval_params>>

\* The loss of the last evaluation that assigned val_loss, line 114 missing.
StaleValLoss == val_loss

\* The loss the checkpoint decision is taken on: line 114.
DecisionLoss == val_summary.loss

\* line 114-117: the checkpoint decision.
Decide ==
    /\ pc = "decide"
    /\ val_loss' = DecisionLoss
    /\ is_best' = IsBest(val_loss', best_val_loss)
    /\ decisions' = Append(decisions, [loss |-> val_loss', best |-> best_val_loss,
                                      is_best |-> is_best'])
    /\ pc' = IF is_best' THEN "save_summary" ELSE "for_epoch"
    /\ UNCHANGED <<epochs, n_batches, summary_step, exc, epoch_it, epoch,
                   step_it, step, training, params, mb_loss, mb_acc, tr_loss,
                   tr_acc, tr_summary, val_summary, best_val_loss, lr,
                   sched_best, num_bad_epochs, summary_json, best_tar, val_hist,
                   sched_log, writer>>
    /\ UNCHANGED <<attn_mat, reg, batch_log, n_zero_grad, n_backward, eval_params>>

\* line 121-124: the summary is written.
SaveSummary ==
    /\ pc = "save_summary"
    /\ summary_json' = summary_save(summary_json,
                          [train |-> tr_summary, validation |-> val_summary])
    /\ pc' = "save_checkpoint"
    /\ UNCHANGED <<epochs, n_batches, summary_step, exc, epoch_it, epoch,
                   step_it, step, training, params, mb_loss, mb_acc, tr_loss,
                   tr_acc, tr_summary, val_summary, val_loss, is_best,
                   best_val_loss, lr, sched_best, num_bad_epochs, best_tar,
                   val_hist, sched_log, writer, decisions>>
    /\ UNCHANGED <<attn_mat, reg, batch_log, n_zero_grad, n_backward, eval_params>>

\* The state taken before the last optimizer step.
StateBeforeLastStep ==
    [epoch |-> epoch + 1,
     model_state_dict |-> params - 1,
     opt_state_dict |-> [params |-> params - 1, lr |-> lr]]

\* line 118-120: state = {"epoch": epoch + 1, "model_state_dict": ...,
\* "opt_state_dict": ...}.
CheckpointState ==
    [epoch |-> epoch + 1,
     model_state_dict |-> params,
     opt_state_dict |-> [params |-> params, lr |-> lr]]

\* line 118-120 and 125: the checkpoint is written.
SaveCheckpoint ==
    /\ pc = "save_checkpoint"
    /\ best_tar' = save_checkpoint(best_tar, CheckpointState)
    /\ pc' = "update_best"
    /\ UNCHANGED <<epochs, n_batches, summary_step, exc, epoch_it, epoch,
                   step_it, step, training, params, mb_loss, mb_acc, tr_loss,
                   tr_acc, tr_summary, val_summary, val_loss, is_best,
                   best_val_loss, lr, sched_best, num_bad_epochs, summary_json,
                   val_hist, sched_log, writer, decisions>>
    /\ UNCHANGED <<attn_mat, reg, batch_log, n_zero_grad, n_backward, eval_params>>

\* line 124 or 125 when the write fails: the OSError leaves the file as it
\* was and, nothing in main() catching it, ends the run.
WriteFails ==
    /\ pc \in {"save_summary", "save_checkpoint"}
    /\ pc' = "raised"
    /\ exc' = "OSError"
    /\ UNCHANGED <<epochs, n_batches, summary_step, epoch_it, epoch, step_it,
                   step, training, params, mb_loss, mb_acc, tr_loss, tr_acc,
                   tr_summary, val_summary, val_loss, is_best, best_val_loss, lr,
                   sched_best, num_bad_epochs, summary_json, best_tar, val_hist,
                   sched_log, writer, decisions>>
    /\ UNCHANGED <<attn_mat, reg, batch_log, n_zero_grad, n_backward, eval_params>>

\* line 127
UpdateBest ==
    /\ pc = "update_best"
    /\ best_val_loss' = val_loss
    /\ pc' = "for_epoch"
    /\ UNCHANGED <<epochs, n_batches, summary_step, exc, epoch_it, epoch,
                   step_it, step, training, params, mb_loss, mb_acc, tr_loss,
                   tr_acc, tr_summary, val_summary, val_loss, is_best, lr,
                   sched_best, num_bad_epochs, summary_json, best_tar, val_hist,
                   sched_log, writer, decisions>>
    /\ UNCHANGED <<attn_mat, reg, batch_log, n_zero_grad, n_backward, eval_params>>

Next ==
    \/ ForEpoch
    \/ ForStep
    \/ ZeroGrad
    \/ Forward(BatchOutcomes)
    \/ Backward
    \/ OptStep
    \/ Accumulate
    \/ PeriodicEval(PeriodicLosses)
    \/ Average
    \/ AverageUnbound
    \/ EpochEval(ValOutcomes)
    \/ SchedulerStep
    \/ Decide
    \/ SaveSummary
    \/ SaveCheckpoint
    \/ WriteFails
    \/ UpdateBest

Spec == Init /\ [][Next]_vars

\* The runs checked for termination: every number of epochs and of batches
\* per epoch up to these.
FairEpochs == 2

FairSteps == 2

InitFair ==
    InitWith(0..FairEpochs, 0..FairSteps, 1..MaxSummaryStep, {DefaultRate})

\* main() is one sequential thread: the statement it is at is executed.
SpecFair == InitFair /\ [][Next]_vars /\ WF_vars(Next)

-----------------------------------------------------------------------------
(* A long run for the plateau scheduler: enough epochs for the scheduler   *)
(* to run out of patience, one batch outcome and one periodic loss, since  *)
(* the scheduler reads the end-of-epoch validation loss alone.             *)

PlateauEpochs == 8

PlateauBatches == { [ce |-> F(1), attn |-> DiverseAttn, acc |-> F(1)] }

PlateauOutcomes == { v \in ValOutcomes : v.loss < BestInit }

InitPlateau == InitWith({PlateauEpochs}, {0, 1}, {2}, LearningRates)

NextPlateau ==
    \/ ForEpoch
    \/ ForStep
    \/ ZeroGrad
    \/ Forward(PlateauBatches)
    \/ Backward
    \/ OptStep
    \/ Accumulate
    \/ PeriodicEval(PeriodicLosses)
    \/ Average
    \/ AverageUnbound
    \/ EpochEval(PlateauOutcomes)
    \/ SchedulerStep
    \/ Decide
    \/ SaveSummary
    \/ SaveCheckpoint
    \/ WriteFails
    \/ UpdateBest

SpecPlateau == InitPlateau /\ [][NextPlateau]_vars

-----------------------------------------------------------------------------
(* regularize on its own: every attention batch of up to MaxBatch items of *)
(* the shapes below, with the weights below, and one application.          *)

MaxBatch == 2

\* rows (r) and timesteps (T) of an item
AttnShapes == { [r |-> 2, T |-> 2], [r |-> 1, T |-> 2], [r |-> 2, T |-> 1] }

AttnWeights == { -1, 0, 1 }

AttnBatches ==
    UNION { UNION { [1..B -> [1..sh.r -> [1..sh.T -> AttnWeights]]] :
                    sh \in AttnShapes } : B \in 1..MaxBatch }

InitRegularize ==
    /\ RunState({0}, {0}, {1}, {DefaultRate})
    /\ pc = "regularize"
    /\ attn_mat \in AttnBatches

\* line 86: reg = regularize(attn_mat, model_config.r, device)
Regularize ==
    /\ pc = "regularize"
    /\ reg' = regularize(attn_mat, Len(attn_mat[1]))
    /\ pc' = "regularized"
    /\ UNCHANGED <<epochs, n_batches, summary_step, exc, epoch_it, epoch,
                   step_it, step, training, params, mb_loss, mb_acc, tr_loss,
                   tr_acc, tr_summary, val_summary, val_loss, is_best,
                   best_val_loss, lr, sched_best, num_bad_epochs, summary_json,
                   best_tar, val_hist, sched_log, writer, decisions, attn_mat,
                   batch_log, n_zero_grad, n_backward, eval_params>>

NextRegularize == Regularize

SpecRegularize == InitRegularize /\ [][NextRegularize]_vars

-----------------------------------------------------------------------------
(* Helpers of the properties *)

\* The run is between two epochs, or over, and no exception has ended it.
AtRest == pc \in {"for_epoch", "done"}

MinOf(S) == CHOOSE m \in S : \A x \in S : m <= x

MaxOf(S) == CHOOSE m \in S : \A x \in S : m >= x

SeqMin(q) == MinOf({ q[i] : i \in 1..Len(q) })

\* The first index at which q takes its minimum.
EarliestMin(q) == MinOf({ i \in 1..Len(q) : q[i] = SeqMin(q) })

\* The decisions that found an improvement.
BestDecisions == { i \in 1..Len(decisions) : decisions[i].is_best }

-----------------------------------------------------------------------------
(* C1: a checkpoint decision persists if and only if the epoch's           *)
(* validation loss is strictly below the tracker.  Every decision found    *)
(* an improvement exactly when its loss was strictly below the tracker it  *)
(* met; the tracker a decision meets is the loss of the last improving     *)
(* decision before it (the initial value when there is none); and between  *)
(* epochs of a run in which no write failed, summary.json, best.tar and    *)
(* the tracker are those of the last improving decision, and are absent    *)
(* or initial when no decision improved.  The loss sequence                *)
(* 20000, 19999, 10000 gives three saves and 19999, 19999, 20000 one save, *)
(* at the first epoch.                                                     *)
C1_PersistIffStrictlyLower ==
    /\ \A i \in 1..Len(decisions) :
         /\ decisions[i].is_best <=> decisions[i].loss < decisions[i].best
         /\ decisions[i].best =
              IF i = 1 THEN BestInit
              ELSE IF decisions[i-1].is_best THEN decisions[i-1].loss
              ELSE decisions[i-1].best
    /\ AtRest =>
         IF BestDecisions = {}
         THEN /\ summary_json = << >>
              /\ best_tar = << >>
              /\ best_val_loss = BestInit
         ELSE LET j == MaxOf(BestDecisions)
              IN  /\ Len(summary_json) = 1
                  /\ summary_json[1].validation.loss = decisions[j].loss
                  /\ Len(best_tar) = 1
                  /\ best_tar[1].epoch = j
                  /\ best_val_loss = decisions[j].loss
    /\ (AtRest /\ val_hist = <<20000, 19999, 10000>>) => BestDecisions = {1, 2, 3}
    /\ (AtRest /\ val_hist = <<19999, 19999, 20000>>) => BestDecisions = {1}

\* A tie with the tracker was met and nothing was saved for it, after an
\* earlier epoch was saved.
C1_Witness ==
    /\ pc = "done"
    /\ val_hist = <<19999, 19999, 20000>>
    /\ BestDecisions = {1}
    /\ Len(best_tar) = 1
    /\ best_tar[1].epoch = 1

-----------------------------------------------------------------------------
(* C2: the tracker starts at +infinity and, after every completed epoch,   *)
(* is the minimum of the end-of-epoch validation losses seen so far, so    *)
(* that the first epoch's loss, whatever its finite value, is the best.    *)
C2_TrackerIsMinimumSeen ==
    (AtRest /\ Len(val_hist) >= 1) =>
        /\ best_val_loss = SeqMin(val_hist)
        /\ decisions[1].is_best

-----------------------------------------------------------------------------
(* C3: whenever the program is not in the middle of the two writes, also   *)
(* after a write has failed, summary.json and best.tar belong to the same  *)
(* epoch: both absent, or both present with the summary's validation loss  *)
(* that of the checkpoint's epoch.                                         *)
C3_ArtifactsOfOneEpoch ==
    pc # "save_checkpoint" =>
        \/ summary_json = << >> /\ best_tar = << >>
        \/ /\ Len(summary_json) = 1
           /\ Len(best_tar) = 1
           /\ best_tar[1].epoch \in 1..Len(val_hist)
           /\ summary_json[1].validation.loss = val_hist[best_tar[1].epoch]

-----------------------------------------------------------------------------
(* C4: when an improving epoch's write fails, the tracker still takes the  *)
(* epoch's validation loss.                                                *)
C4_TrackerTakenOnWriteFailure ==
    exc = "OSError" => best_val_loss = val_loss

-----------------------------------------------------------------------------
(* C5: once a training batch has a non-finite total loss the run aborts at *)
(* that batch: from then on no optimizer step is taken, the running        *)
(* training loss is not touched, the scheduler is not stepped and no       *)
(* checkpoint decision is taken.                                           *)
C5_NonFiniteLossAborts ==
    [][~IsFinite(mb_loss) => UNCHANGED <<params, tr_loss, sched_log, decisions>>]_vars

-----------------------------------------------------------------------------
(* C6: the global step grows by one with every training step across epoch  *)
(* boundaries, and a periodic evaluation follows a training step exactly   *)
(* when its global step is a multiple of summary_step: the evaluations     *)
(* logged are those of the global steps 0, summary_step, 2 summary_step,   *)
(* ... below the number of training steps checked so far, and a run that   *)
(* ends after E epochs of N steps has made ceil(E N / summary_step).       *)
Ceil(a, b) == (a + b - 1) \div b

\* Training steps whose periodic check (line 98) has run.
StepsChecked == IF pc \in {"accumulate", "summary"} THEN params - 1 ELSE params

C6_PeriodicEvalSchedule ==
    /\ pc \in {"accumulate", "summary"} => global_step = params - 1
    /\ Len(writer) = Ceil(StepsChecked, summary_step)
    /\ \A i \in 1..Len(writer) : writer[i] = (i - 1) * summary_step
    /\ pc = "done" => Len(writer) = Ceil(epochs * n_batches, summary_step)

\* A run of three epochs of one step with summary_step 2: evaluations after
\* global steps 0 and 2, none in the second epoch.
C6_Witness ==
    /\ pc = "done"
    /\ epochs = 3
    /\ n_batches = 1
    /\ summary_step = 2
    /\ writer = <<0, 2>>

-----------------------------------------------------------------------------
(* C7: no training step runs while the model is in inference mode.         *)
C7_TrainStepInTrainingMode ==
    pc \in {"zero_grad", "forward", "backward", "opt_step"} => training

\* A training step that follows a periodic and an end-of-epoch evaluation.
C7_Witness ==
    /\ pc = "backward"
    /\ training
    /\ Len(val_hist) >= 1
    /\ Len(writer) >= 2
    /\ step >= 1

-----------------------------------------------------------------------------
(* C8: in every epoch all training steps come first, then one full         *)
(* evaluation, then one scheduler step fed with its loss, then one         *)
(* checkpoint decision on that same loss; the scheduler is stepped and the *)
(* decision taken once per epoch, at the epoch's end alone, and never for  *)
(* a periodic evaluation.                                                  *)
C8_EpochOrder ==
    /\ \A i \in 1..Len(sched_log) :
         i <= Len(val_hist) /\ sched_log[i].metric = val_hist[i]
    /\ \A i \in 1..Len(decisions) :
         i <= Len(val_hist) /\ decisions[i].loss = val_hist[i]
    /\ pc \in {"for_step", "zero_grad", "forward", "backward", "opt_step",
               "accumulate", "summary", "average", "evaluate"} =>
         /\ Len(val_hist) = epoch_it - 1
         /\ Len(sched_log) = epoch_it - 1
         /\ Len(decisions) = epoch_it - 1
    /\ pc = "evaluate" => params = epoch_it * n_batches
    /\ pc = "schedule" =>
         /\ Len(val_hist) = epoch_it
         /\ Len(sched_log) = epoch_it - 1
         /\ Len(decisions) = epoch_it - 1
         /\ params = epoch_it * n_batches
    /\ pc = "decide" =>
         /\ Len(val_hist) = epoch_it
         /\ Len(sched_log) = epoch_it
         /\ Len(decisions) = epoch_it - 1
         /\ params = epoch_it * n_batches
    /\ pc \in {"save_summary", "save_checkpoint", "update_best", "for_epoch",
               "done"} =>
         /\ Len(val_hist) = epoch_it
         /\ Len(sched_log) = epoch_it
         /\ Len(decisions) = epoch_it
    /\ pc = "done" => epoch_it = epochs

\* Two whole epochs, each with periodic evaluations whose loss differs from
\* the end-of-epoch loss.
C8_Witness ==
    /\ pc = "done"
    /\ epochs = 2
    /\ Len(writer) >= 2
    /\ Len(decisions) = 2
    /\ Len(sched_log) = 2
    /\ val_hist = <<19999, 10000>>

-----------------------------------------------------------------------------
(* C9: the plateau scheduler, patience 5.                                  *)

\* Epoch i failed to improve: its validation loss is not below the lowest
\* of the epochs before it.
Stale(i) == i >= 2 /\ val_hist[i] >= SeqMin(SubSeq(val_hist, 1, i - 1))

\* Epochs i+1 .. i+n all failed to improve.
StaleRun(i, n) == \A j \in (i + 1)..(i + n) : Stale(j)

\* A reduction of this learning rate is large enough to be taken.
Reducible(rate) == rate - Max(rate \div factor_den, min_lr) > eps

(* C9 as claimed: after `patience` consecutive epochs without improvement *)
(* the learning rate is strictly below the rate before those epochs.       *)
C9_ReducedAfterPatienceEpochs ==
    \A i \in 1..Len(sched_log) :
        (i + patience <= Len(sched_log) /\ StaleRun(i, patience)) =>
            sched_log[i + patience].lr < sched_log[i].lr

(* C9, amended: after patience + 1 consecutive epochs without improvement  *)
(* the learning rate is strictly below the rate before those epochs,       *)
(* provided a tenth of that rate is below it by more than eps.             *)
C9_ReducedAfterMoreThanPatienceEpochs ==
    \A i \in 1..Len(sched_log) :
        ( /\ i + patience + 1 <= Len(sched_log)
          /\ StaleRun(i, patience + 1)
          /\ Reducible(sched_log[i].lr) ) =>
            sched_log[i + patience + 1].lr < sched_log[i].lr

\* Six epochs without improvement after the first, and the rate is a tenth
\* of what it was.
C9_Witness ==
    /\ Len(sched_log) >= patience + 2
    /\ StaleRun(1, patience + 1)
    /\ sched_log[1].lr = DefaultRate
    /\ sched_log[patience + 1].lr = DefaultRate
    /\ sched_log[patience + 2].lr = DefaultRate \div factor_den

-----------------------------------------------------------------------------
(* C10: between epochs of a run in which no write failed there is one      *)
(* best.tar and one summary.json, and both are of the earliest epoch that  *)
(* has the lowest end-of-epoch validation loss so far.                     *)
C10_ArtifactsOfEarliestMinimum ==
    (AtRest /\ Len(val_hist) >= 1) =>
        /\ Len(best_tar) = 1
        /\ Len(summary_json) = 1
        /\ best_tar[1].epoch = EarliestMin(val_hist)
        /\ summary_json[1].validation.loss = SeqMin(val_hist)

-----------------------------------------------------------------------------
(* C11: regularize is never negative, and is 0 exactly when in every item  *)
(* of the batch the attention rows are pairwise orthogonal and of unit     *)
(* norm; the norm is taken per item and the norms are then averaged: the   *)
(* penalty of a batch is the sum of the penalties of its items, each taken *)
(* as a batch of one, over the batch size.                                 *)

\* The rows of an item are pairwise orthogonal and of unit norm.
Orthonormal(item) ==
    \A i, j \in 1..Len(item) :
        SumTo([k \in 1..Len(item[i]) |-> item[i][k] * item[j][k]], Len(item[i]))
            = IF i = j THEN 1 ELSE 0

C11_PenaltyZeroIffOrthonormal ==
    pc = "regularized" =>
        /\ reg.den = Len(attn_mat)
        /\ reg.num >= 0
        /\ reg.num = 0 <=> \A b \in 1..Len(attn_mat) : Orthonormal(attn_mat[b])
        /\ reg.num =
             SumTo([b \in 1..Len(attn_mat) |->
                      regularize(<<attn_mat[b]>>, Len(attn_mat[b])).num],
                   Len(attn_mat))

\* A batch of two items whose matrices sim - identity cancel each other,
\* -I and I: the penalty is 1, not 0.
C11_Witness ==
    /\ pc = "regularized"
    /\ attn_mat = << << <<0, 0>>, <<0, 0>> >>, << <<1, 1>>, <<1, -1>> >> >>
    /\ reg = [num |-> 2, den |-> 2]

-----------------------------------------------------------------------------
\* The epoch's reported training averages.

\* Two floats of the same value, or both not a number.
SameF(x, y) ==
    IF x.den = 0 \/ y.den = 0
    THEN x.den = 0 /\ y.den = 0
    ELSE x.num * y.den = y.num * x.den

\* The sum of cross-entropy plus penalty over the first n logged batches.
RECURSIVE LoggedLoss(_, _)
LoggedLoss(log, n) ==
    IF n = 0
    THEN F(0)
    ELSE AddF(LoggedLoss(log, n - 1), AddF(log[n].ce, log[n].reg))

\* The sum of the accuracies of the first n logged batches.
RECURSIVE LoggedAcc(_, _)
LoggedAcc(log, n) ==
    IF n = 0 THEN F(0) ELSE AddF(LoggedAcc(log, n - 1), log[n].acc)

\* The positions of an epoch after its averages were taken.
Reported ==
    pc \in {"evaluate", "schedule", "decide", "save_summary", "save_checkpoint",
            "update_best"}

-----------------------------------------------------------------------------
\* Termination and the number of steps of a run.

\* The run is over: main() returned, or an exception ended it.
Ended == pc \in {"done", "raised"}

\* The counts of a batch's three steps at each position: the gradient reset is
\* ahead from line 84 on, the backward pass from line 89 on, and the optimizer
\* step closes the batch.
OneOfEachInOrder ==
    /\ pc \in {"forward", "backward"} =>
         n_zero_grad = params + 1 /\ n_backward = params
    /\ pc = "opt_step" =>
         n_zero_grad = params + 1 /\ n_backward = params + 1
    /\ pc \notin {"forward", "backward", "opt_step"} =>
         n_zero_grad = params /\ n_backward = params

\* C13: a run of E epochs of N batches ends; when it ends without an error it
\* has taken exactly E * N optimizer steps, each batch having had one gradient
\* reset, then one backward pass, then one optimizer step, and exactly E
\* end-of-epoch evaluations, E scheduler steps and E checkpoint decisions.
C13_TerminatesWithExactCounts ==
    /\ <>Ended
    /\ [](pc = "done" =>
            /\ params = epochs * n_batches
            /\ n_zero_grad = epochs * n_batches
            /\ n_backward = epochs * n_batches
            /\ Len(val_hist) = epochs
            /\ Len(sched_log) = epochs
            /\ Len(decisions) = epochs)
    /\ []OneOfEachInOrder

\* A run of two epochs of two batches has returned after four optimizer
\* steps and two evaluations, scheduler steps and decisions.
C13_Witness ==
    /\ pc = "done"
    /\ epochs = 2
    /\ n_batches = 2
    /\ params = 4
    /\ n_zero_grad = 4
    /\ n_backward = 4
    /\ Len(val_hist) = 2
    /\ Len(sched_log) = 2
    /\ Len(decisions) = 2

-----------------------------------------------------------------------------
\* The parameters of the checkpoint.

\* C14: from the end-of-epoch evaluation to the checkpoint write the model
\* parameters are the ones the evaluation measured (the evaluation, the
\* scheduler step and the decision leave them unchanged and no optimizer step
\* comes between), and the checkpoint written in an improving epoch holds
\* exactly these parameters, those after all batches of its epoch.
C14_CheckpointHoldsEvaluatedParams ==
    /\ pc \in {"schedule", "decide", "save_summary", "save_checkpoint",
               "update_best"} =>
         /\ params = eval_params
         /\ params = (epoch + 1) * n_batches
    /\ pc = "update_best" =>
         /\ Len(best_tar) = 1
         /\ best_tar[1].model_state_dict = eval_params
         /\ best_tar[1].epoch = epoch + 1
    /\ Len(best_tar) = 1 =>
         best_tar[1].model_state_dict = best_tar[1].epoch * n_batches

\* The second epoch of two batches has improved and its checkpoint is written:
\* it holds the parameters after the fourth optimizer step, on which the
\* epoch's validation loss was measured.
C14_Witness ==
    /\ pc = "update_best"
    /\ epoch = 1
    /\ n_batches = 2
    /\ eval_params = 4
    /\ best_tar = <<[epoch |-> 2,
                     model_state_dict |-> 4,
                     opt_state_dict |-> [params |-> 4, lr |-> lr]]>>
    /\ val_loss = val_hist[2]

====
